---- MODULE Spec2Model ----
(***************************************************************************)
(* Model of src/index.ts: the dApp-staking reimbursement script.           *)
(*                                                                         *)
(* main() is one asynchronous function.  Every `await` on a collaborator   *)
(* (the chain RPC client, the chopsticks fork, Bun.write) is a program     *)
(* position `pc`; the synchronous code between two awaits belongs to the   *)
(* action that ends at the next await.  What the live chain and the        *)
(* replayed runtime answer is drawn from small sets at the read.           *)
(*                                                                         *)
(* Insertion-ordered JS Maps are sequences of <<key, value>> pairs.        *)
(* An optional value (undefined | v) is <<>> | <<v>>.                      *)
(* Hex strings are sequences of one-character strings.                     *)
(***************************************************************************)
EXTENDS Integers, Sequences, FiniteSets, TLC

(***************************************************************************)
(* Program constants and bounds                                            *)
(***************************************************************************)
START_BLOCK == 6216237

END_BLOCK == 6285334

\* eras the chain reports are 1..MaxEra
MaxEra == 2

\* next-era-start values the chain reports are END_BLOCK-NumBelow..END_BLOCK
NumBelow == 2

\* dApp ids are 1..MaxDapp
MaxDapp == 2

\* per-tier reward amounts are 0..MaxReward
MaxReward == 1

\* tier ids are 0..NumTiers-1
NumTiers == 2

\* 10n ** 18n lies outside TLC's integers: amounts are counted in units of
\* 10^17, so that one ASTR is AstrUnit of them
AstrUnit == 10

Eras == 1..MaxEra

BoundaryBlocks == (END_BLOCK - NumBelow)..END_BLOCK

DappIds == 1..MaxDapp

TierIds == 0..(NumTiers - 1)

Amounts == 0..MaxReward

(***************************************************************************)
(* Optional values and insertion-ordered maps                              *)
(***************************************************************************)
None == <<>>

Some(v) == <<v>>

MapHas(m, k) == \E i \in DOMAIN m : m[i][1] = k

\* Map.prototype.get: undefined when the key is absent
MapGet(m, k) ==
  IF MapHas(m, k) THEN Some(m[CHOOSE i \in DOMAIN m : m[i][1] = k][2]) ELSE None

\* Map.prototype.set: an existing key keeps its place, a new key is appended
MapSet(m, k, v) ==
  IF MapHas(m, k)
    THEN [i \in DOMAIN m |-> IF m[i][1] = k THEN <<k, v>> ELSE m[i]]
    ELSE Append(m, <<k, v>>)

MapKeys(m) == {m[i][1] : i \in DOMAIN m}

(***************************************************************************)
(* Hex strings                                                             *)
(***************************************************************************)
HexChars ==
  <<"0", "1", "2", "3", "4", "5", "6", "7",
    "8", "9", "a", "b", "c", "d", "e", "f">>

HexPrefix == <<"0", "x">>

DigitVal(c) == (CHOOSE i \in 1..16 : HexChars[i] = c) - 1

RECURSIVE ParseHex(_, _)
ParseHex(digits, acc) ==
  IF digits = <<>> THEN acc
  ELSE ParseHex(Tail(digits), acc * 16 + DigitVal(Head(digits)))

\* hexStripPrefix of @polkadot/util
HexStripPrefix(h) ==
  IF Len(h) >= 2 /\ SubSeq(h, 1, 2) = HexPrefix THEN SubSeq(h, 3, Len(h)) ELSE h

\* hexToBigInt of @polkadot/util: 0n for an absent or empty value
HexToBigInt(v) ==
  IF v = None \/ v[1] = <<>> \/ v[1] = HexPrefix THEN 0
  ELSE ParseHex(HexStripPrefix(v[1]), 0)

\* the chain's JSON form of a u128 balance: 0x and 32 hex digits
RECURSIVE HexDigits(_, _)
HexDigits(n, width) ==
  IF width = 0 THEN <<>>
  ELSE Append(HexDigits(n \div 16, width - 1), HexChars[(n % 16) + 1])

U128Hex(n) == HexPrefix \o HexDigits(n, 32)

\* ToHex with each byte printed without its leading zero digit
RECURSIVE BytesHexUnpadded(_)
BytesHexUnpadded(bytes) ==
  IF bytes = <<>> THEN <<>>
  ELSE HexDigits(Head(bytes), IF Head(bytes) < 16 THEN 1 ELSE 2)
         \o BytesHexUnpadded(Tail(bytes))

ToHexUnpadded(bytes) == HexPrefix \o BytesHexUnpadded(bytes)

\* Codec.toHex of a storage value: 0x and two hex digits per byte
RECURSIVE BytesHex(_)
BytesHex(bytes) ==
  IF bytes = <<>> THEN <<>>
  ELSE HexDigits(Head(bytes), 2) \o BytesHex(Tail(bytes))

ToHex(bytes) == HexPrefix \o BytesHex(bytes)

\* JS truthiness of `string | undefined`: undefined and "" are falsy
Truthy(v) == v # None /\ v[1] # <<>>

(***************************************************************************)
(* What the collaborators can answer                                       *)
(***************************************************************************)
\* dappStaking.activeProtocolState at some block
ProtocolStates == [era : Eras, nextEraStart : BoundaryBlocks]

NewEraEvent == [section |-> "dappStaking", method |-> "NewEra"]

\* system.events of a block, in human form
EventLogs ==
  { <<>>,
    <<NewEraEvent>>,
    <<[section |-> "balances", method |-> "Transfer"], NewEraEvent>>,
    <<[section |-> "dappStaking", method |-> "Reward"]>>,
    <<[section |-> "inflation", method |-> "NewEra"]>> }

\* dAppTiers(era).dapps: dApp id -> tier id
TierOf(d) == (d - 1) % NumTiers

TierTables == {[d \in 1..n |-> TierOf(d)] : n \in 1..MaxDapp}

\* dAppTiers(era).rewards: one hex balance per tier
RewardVectors == [1..NumTiers -> {U128Hex(a) : a \in Amounts}]

\* one integratedDApps entry; rewardBeneficiary is "" when it is null
Owner(d) == IF d % 2 = 1 THEN "ownerA" ELSE "ownerB"

RewardBeneficiary(d) == IF d = 1 THEN "payoutC" ELSE ""

DappInfo(d) == [id |-> d, owner |-> Owner(d), rewardBeneficiary |-> RewardBeneficiary(d)]

\* integratedDApps.entries(): the registered dApps
Directories == {{DappInfo(d) : d \in 1..n} : n \in 1..MaxDapp}

\* dappStaking.tierConfig as stored, in bytes
TierConfigBlobs == {<<0, 7>>, <<171>>}

\* substrate.code at END_BLOCK
FixedRuntimeCode == <<0, 97, 115, 109>>

(***************************************************************************)
(* ensureHasEvent and the reward extraction                                *)
(***************************************************************************)
\* EnsureHasEvent that looks at event.method only
EnsureHasEventAnySection(events) ==
  \E i \in DOMAIN events : events[i].method = "NewEra"

\* TRUE when ensureHasEvent returns, FALSE when it throws
EnsureHasEvent(events) ==
  \E i \in DOMAIN events :
    events[i].section = "dappStaking" /\ events[i].method = "NewEra"

\* integratedDApps.find((x) => x.id === Number(dappId))
FindDapp(integratedDApps, dappId) ==
  IF \E x \in integratedDApps : x.id = dappId
    THEN Some(CHOOSE x \in integratedDApps : x.id = dappId)
    ELSE None

\* rewards[tierId]: undefined past the end of the array
RewardAt(rewards, tierId) ==
  IF tierId + 1 \in DOMAIN rewards THEN Some(rewards[tierId + 1]) ELSE None

\* dapp.rewardBeneficiary || dapp.owner
PayoutAddress(dapp) ==
  IF dapp.rewardBeneficiary # "" THEN dapp.rewardBeneficiary ELSE dapp.owner

\* Object.entries of an object with integer keys: ascending keys
RECURSIVE Ascending(_)
Ascending(S) ==
  IF S = {} THEN <<>>
  ELSE LET m == CHOOSE x \in S : \A y \in S : x <= y
       IN <<m>> \o Ascending(S \ {m})

\* the loop over Object.entries(dapps): [ok |-> FALSE] when it throws
\* "dapp should exists", else the Map it has built
RECURSIVE ExtractLoop(_, _, _, _, _)
ExtractLoop(ids, dapps, rewards, integratedDApps, dappsReward) ==
  IF ids = <<>> THEN [ok |-> TRUE, map |-> dappsReward]
  ELSE LET dappId == Head(ids)
           tierId == dapps[dappId]
           reward == HexToBigInt(RewardAt(rewards, tierId))
           dapp == FindDapp(integratedDApps, dappId)
       IN IF dapp = None THEN [ok |-> FALSE, map |-> dappsReward]
          ELSE ExtractLoop(Tail(ids), dapps, rewards, integratedDApps,
                 MapSet(dappsReward, dappId,
                   [reward |-> reward, tierId |-> tierId,
                    beneficiary |-> PayoutAddress(dapp[1])]))

ExtractRewards(dapps, rewards, integratedDApps) ==
  ExtractLoop(Ascending(DOMAIN dapps), dapps, rewards, integratedDApps, <<>>)

(***************************************************************************)
(* State of main()                                                         *)
(***************************************************************************)
VARIABLES
  pc,             \* the await main() is suspended at
  protocolState,  \* let protocolState (optional)
  blockNo,        \* const blockNo of the Scanner iteration (0 outside its scope)
  era,            \* const era of the Scanner iteration (0 outside its scope)
  blocks,         \* Map era -> block number
  actualTiers,    \* Map era -> Map dApp id -> Reward
  runtime,        \* const runtime (optional)
  tierConfig,     \* let tierConfig: string | undefined
  expectedTiers,  \* Map era -> Map dApp id -> Reward
  iter,           \* position of the iterator of `for (... of blocks)`
  forks,          \* every context setupContext has returned, in order
  mergeAt,        \* position of the nested loops of the merge
  finalResults,   \* let finalResults
  reimburse,      \* const reimburse, an object keyed by beneficiary
  files,          \* Map file name -> what Bun.write wrote
  total,          \* the amount logged (optional)
  seenEvents,     \* the argument of the ensureHasEvent call just made (optional)
  exitCode,       \* the argument of process.exit (optional)
  error           \* the message of the error main() rejected with, or ""

vars ==
  <<pc, protocolState, blockNo, era, blocks, actualTiers, runtime, tierConfig,
    expectedTiers, iter, forks, mergeAt, finalResults, reimburse, files, total,
    seenEvents, exitCode, error>>

scanVars == <<protocolState, blockNo, era, blocks, actualTiers, runtime>>

replayVars == <<tierConfig, expectedTiers, iter, forks>>

mergeVars == <<mergeAt, finalResults>>

outVars == <<reimburse, files, total>>

Init ==
  /\ pc = "start"
  /\ protocolState = None
  /\ blockNo = 0
  /\ era = 0
  /\ blocks = <<>>
  /\ actualTiers = <<>>
  /\ runtime = None
  /\ tierConfig = None
  /\ expectedTiers = <<>>
  /\ iter = 1
  /\ forks = <<>>
  /\ mergeAt = 1
  /\ finalResults = <<>>
  /\ reimburse = <<>>
  /\ files = <<>>
  /\ total = None
  /\ seenEvents = None
  /\ exitCode = None
  /\ error = ""

\* main() rejects: .catch logs the error and calls process.exit(1)
Abort(message) ==
  /\ pc' = "aborted"
  /\ error' = message
  /\ exitCode' = Some(1)

(***************************************************************************)
(* Era Scanner                                                             *)
(***************************************************************************)
\* the condition of `while (...)` on the refreshed snapshot
LoopAgain(state) == state.nextEraStart < END_BLOCK

ReadInitialState ==
  /\ pc = "start"
  /\ \E state \in ProtocolStates : protocolState' = Some(state)
  /\ pc' = "record"
  /\ UNCHANGED <<blockNo, era, blocks, actualTiers, runtime>>
  /\ UNCHANGED <<replayVars, mergeVars, outVars, exitCode, error>>
  /\ UNCHANGED seenEvents

RecordBoundary ==
  /\ pc = "record"
  /\ blockNo' = protocolState[1].nextEraStart
  /\ era' = protocolState[1].era
  /\ blocks' = MapSet(blocks, era', blockNo')
  /\ pc' = "events"
  /\ UNCHANGED <<protocolState, actualTiers, runtime>>
  /\ UNCHANGED <<replayVars, mergeVars, outVars, exitCode, error>>
  /\ UNCHANGED seenEvents

ScanCheckEvent ==
  /\ pc = "events"
  /\ \E events \in EventLogs :
       /\ seenEvents' = Some(events)
       /\ IF EnsureHasEvent(events)
           THEN pc' = "extract" /\ UNCHANGED <<exitCode, error>>
           ELSE Abort("Missing dappStaking::NewEra event")
  /\ UNCHANGED <<scanVars, replayVars, mergeVars, outVars>>

\* ScanExtract that keys the reward set by the boundary block
ScanExtractKeyedByBlock ==
  /\ pc = "extract"
  /\ \E dapps \in TierTables, rewards \in RewardVectors,
        integratedDApps \in Directories :
       LET got == ExtractRewards(dapps, rewards, integratedDApps)
       IN IF got.ok
            THEN /\ actualTiers' = MapSet(actualTiers, blockNo, got.map)
                 /\ pc' = "refresh"
                 /\ UNCHANGED <<exitCode, error>>
            ELSE /\ Abort("dapp should exists")
                 /\ UNCHANGED actualTiers
  /\ UNCHANGED <<protocolState, blockNo, era, blocks, runtime>>
  /\ UNCHANGED <<replayVars, mergeVars, outVars>>
  /\ seenEvents' = None

ScanExtract ==
  /\ pc = "extract"
  /\ \E dapps \in TierTables, rewards \in RewardVectors,
        integratedDApps \in Directories :
       LET got == ExtractRewards(dapps, rewards, integratedDApps)
       IN IF got.ok
            THEN /\ actualTiers' = MapSet(actualTiers, era, got.map)
                 /\ pc' = "refresh"
                 /\ UNCHANGED <<exitCode, error>>
            ELSE /\ Abort("dapp should exists")
                 /\ UNCHANGED actualTiers
  /\ UNCHANGED <<protocolState, blockNo, era, blocks, runtime>>
  /\ UNCHANGED <<replayVars, mergeVars, outVars>>
  /\ seenEvents' = None

\* the snapshot is refreshed and the loop body's scope ends
ScanRefresh ==
  /\ pc = "refresh"
  /\ \E state \in ProtocolStates :
       /\ protocolState' = Some(state)
       /\ pc' = IF LoopAgain(state) THEN "record" ELSE "runtime"
  /\ blockNo' = 0
  /\ era' = 0
  /\ UNCHANGED <<blocks, actualTiers, runtime>>
  /\ UNCHANGED <<replayVars, mergeVars, outVars, exitCode, error>>
  /\ UNCHANGED seenEvents

\* substrate.code at END_BLOCK, then api.disconnect()
ReadRuntime ==
  /\ pc = "runtime"
  /\ runtime' = Some(ToHex(FixedRuntimeCode))
  /\ pc' = "replay"
  /\ UNCHANGED <<protocolState, blockNo, era, blocks, actualTiers>>
  /\ UNCHANGED <<replayVars, mergeVars, outVars, exitCode, error>>
  /\ UNCHANGED seenEvents

(***************************************************************************)
(* Replay Reconciler                                                       *)
(***************************************************************************)
\* the context setupContext returns
NewFork(forEra, block) ==
  [era |-> forEra, blockNumber |-> block - 1, wasm |-> None, override |-> None,
   produced |-> FALSE, storage |-> None, open |-> TRUE]

\* Closed that leaves the fork open
LeftOpen(ctx) == ctx

\* ctx.teardown()
Closed(ctx) == [ctx EXCEPT !.open = FALSE]

\* ctx of the running iteration
ctxAt == Len(forks)

SetupContext ==
  /\ pc = "replay"
  /\ iter <= Len(blocks)
  /\ forks' = Append(forks, NewFork(blocks[iter][1], blocks[iter][2]))
  /\ pc' = "setWasm"
  /\ UNCHANGED <<tierConfig, expectedTiers, iter>>
  /\ UNCHANGED <<scanVars, mergeVars, outVars, exitCode, error>>
  /\ UNCHANGED seenEvents

\* ctx.chain.head.setWasm(runtime), then the test of `if (tierConfig)`
SetWasm ==
  /\ pc = "setWasm"
  /\ forks' = [forks EXCEPT ![ctxAt].wasm = runtime]
  /\ pc' = IF Truthy(tierConfig) THEN "override" ELSE "newBlock"
  /\ UNCHANGED <<tierConfig, expectedTiers, iter>>
  /\ UNCHANGED <<scanVars, mergeVars, outVars, exitCode, error>>
  /\ UNCHANGED seenEvents

OverrideStorage ==
  /\ pc = "override"
  /\ forks' = [forks EXCEPT ![ctxAt].override = tierConfig]
  /\ pc' = "newBlock"
  /\ UNCHANGED <<tierConfig, expectedTiers, iter>>
  /\ UNCHANGED <<scanVars, mergeVars, outVars, exitCode, error>>
  /\ UNCHANGED seenEvents

\* ctx.dev.newBlock(): the runtime recomputes the tier configuration
NewBlock ==
  /\ pc = "newBlock"
  /\ \E blob \in TierConfigBlobs :
       forks' = [forks EXCEPT ![ctxAt].produced = TRUE,
                              ![ctxAt].storage = Some(blob)]
  /\ pc' = "forkEvents"
  /\ UNCHANGED <<tierConfig, expectedTiers, iter>>
  /\ UNCHANGED <<scanVars, mergeVars, outVars, exitCode, error>>
  /\ UNCHANGED seenEvents

ReplayCheckEvent ==
  /\ pc = "forkEvents"
  /\ \E events \in EventLogs :
       /\ seenEvents' = Some(events)
       /\ IF EnsureHasEvent(events)
           THEN pc' = "readConfig" /\ UNCHANGED <<exitCode, error>>
           ELSE Abort("Missing dappStaking::NewEra event")
  /\ UNCHANGED <<scanVars, replayVars, mergeVars, outVars>>

ReadTierConfig ==
  /\ pc = "readConfig"
  /\ tierConfig' = Some(ToHex(forks[ctxAt].storage[1]))
  /\ pc' = "forkExtract"
  /\ UNCHANGED <<expectedTiers, iter, forks>>
  /\ UNCHANGED <<scanVars, mergeVars, outVars, exitCode, error>>
  /\ seenEvents' = None

\* ReplayExtract that stores the replayed reward set in actualTiers
ReplayExtractIntoActual ==
  /\ pc = "forkExtract"
  /\ \E dapps \in TierTables, rewards \in RewardVectors,
        integratedDApps \in Directories :
       LET got == ExtractRewards(dapps, rewards, integratedDApps)
       IN IF got.ok
            THEN /\ actualTiers' = MapSet(actualTiers, blocks[iter][1], got.map)
                 /\ pc' = "wait"
                 /\ UNCHANGED <<exitCode, error>>
            ELSE /\ Abort("dapp should exists")
                 /\ UNCHANGED actualTiers
  /\ UNCHANGED <<tierConfig, expectedTiers, iter, forks>>
  /\ UNCHANGED <<protocolState, blockNo, era, blocks, runtime>>
  /\ UNCHANGED <<mergeVars, outVars>>
  /\ UNCHANGED seenEvents

ReplayExtract ==
  /\ pc = "forkExtract"
  /\ \E dapps \in TierTables, rewards \in RewardVectors,
        integratedDApps \in Directories :
       LET got == ExtractRewards(dapps, rewards, integratedDApps)
       IN IF got.ok
            THEN /\ expectedTiers' = MapSet(expectedTiers, blocks[iter][1], got.map)
                 /\ pc' = "wait"
                 /\ UNCHANGED <<exitCode, error>>
            ELSE /\ Abort("dapp should exists")
                 /\ UNCHANGED expectedTiers
  /\ UNCHANGED <<tierConfig, iter, forks>>
  /\ UNCHANGED <<scanVars, mergeVars, outVars>>
  /\ UNCHANGED seenEvents

\* await new Promise((r) => setTimeout(r, 1_000))
SettleWait ==
  /\ pc = "wait"
  /\ pc' = "teardown"
  /\ UNCHANGED <<scanVars, replayVars, mergeVars, outVars, exitCode, error>>
  /\ UNCHANGED seenEvents

\* ctx.teardown(), then the iterator advances
Teardown ==
  /\ pc = "teardown"
  /\ forks' = [forks EXCEPT ![ctxAt] = Closed(forks[ctxAt])]
  /\ iter' = iter + 1
  /\ pc' = "replay"
  /\ UNCHANGED <<tierConfig, expectedTiers>>
  /\ UNCHANGED <<scanVars, mergeVars, outVars, exitCode, error>>
  /\ UNCHANGED seenEvents

\* ReplayDone that leaves the loop one entry early
ReplayDoneEarly ==
  /\ pc = "replay"
  /\ iter >= Len(blocks)
  /\ pc' = "merge"
  /\ UNCHANGED <<scanVars, replayVars, mergeVars, outVars, exitCode, error>>
  /\ UNCHANGED seenEvents

\* the iterator of blocks is exhausted
ReplayDone ==
  /\ pc = "replay"
  /\ iter > Len(blocks)
  /\ pc' = "merge"
  /\ UNCHANGED <<scanVars, replayVars, mergeVars, outVars, exitCode, error>>
  /\ UNCHANGED seenEvents

\* a chain read or a fork operation rejects: nothing catches it before main()'s
\* .catch
AwaitedCollaborator ==
  {"start", "events", "extract", "refresh", "runtime", "setWasm", "override",
   "newBlock", "forkEvents", "readConfig", "forkExtract"}

\* CollaboratorFails that logs the rejection and carries on with the call
CollaboratorFailsSwallowed ==
  /\ \/ pc \in AwaitedCollaborator
     \/ pc = "replay" /\ iter <= Len(blocks)
  /\ error' = "collaborator failure"
  /\ UNCHANGED <<pc, exitCode>>
  /\ UNCHANGED <<scanVars, replayVars, mergeVars, outVars>>
  /\ UNCHANGED seenEvents

CollaboratorFails ==
  /\ \/ pc \in AwaitedCollaborator
     \/ pc = "replay" /\ iter <= Len(blocks)
  /\ Abort("collaborator failure")
  /\ UNCHANGED <<scanVars, replayVars, mergeVars, outVars>>
  /\ UNCHANGED seenEvents

(***************************************************************************)
(* Delta Aggregator                                                        *)
(***************************************************************************)
\* the (era, dapp_id, expected) triples the nested loops visit, in their order
RECURSIVE PairsOfEra(_, _)
PairsOfEra(forEra, dapps) ==
  IF dapps = <<>> THEN <<>>
  ELSE <<[era |-> forEra, dapp_id |-> dapps[1][1], expected |-> dapps[1][2]]>>
         \o PairsOfEra(forEra, Tail(dapps))

RECURSIVE PairsOf(_)
PairsOf(tiers) ==
  IF tiers = <<>> THEN <<>>
  ELSE PairsOfEra(tiers[1][1], tiers[1][2]) \o PairsOf(Tail(tiers))

\* LookupActual that answers an absent recipient with a zero record
LookupActualOrZero(forEra, dapp_id) ==
  LET dapps == MapGet(actualTiers, forEra)
      found == IF dapps = None THEN None ELSE MapGet(dapps[1], dapp_id)
  IN IF found = None
       THEN Some([reward |-> 0, tierId |-> 0, beneficiary |-> ""])
       ELSE found

\* actualTiers.get(era)!.get(dapp_id)!: undefined when the recipient is absent;
\* reading .get of an absent era, or .reward of an absent record, throws
LookupActual(forEra, dapp_id) ==
  LET dapps == MapGet(actualTiers, forEra)
  IN IF dapps = None THEN None ELSE MapGet(dapps[1], dapp_id)

\* Delta with its operands exchanged
DeltaSwapped(expected, actual) == actual.reward - expected.reward

Delta(expected, actual) == expected.reward - actual.reward

\* DeltaRejected that lets a delta of -1 pass
DeltaRejectedBelow(delta) == delta < -1

\* if (delta < 0) throw
DeltaRejected(delta) == delta < 0

Row(pair, actual, delta) ==
  [era |-> pair.era,
   dapp_id |-> pair.dapp_id,
   beneficiary |-> pair.expected.beneficiary,
   expected_tier |-> pair.expected.tierId,
   actual_tier |-> actual.tierId,
   expected_reward |-> pair.expected.reward,
   actual_reward |-> actual.reward,
   delta |-> delta]

\* one pass of the inner loop body
MergeStep ==
  /\ pc = "merge"
  /\ mergeAt <= Len(PairsOf(expectedTiers))
  /\ LET pair == PairsOf(expectedTiers)[mergeAt]
         actual == LookupActual(pair.era, pair.dapp_id)
     IN IF actual = None
          THEN /\ Abort("TypeError: undefined is not an object")
               /\ UNCHANGED mergeVars
          ELSE IF DeltaRejected(Delta(pair.expected, actual[1]))
            THEN /\ Abort("amount delta should not be negative")
                 /\ UNCHANGED mergeVars
            ELSE /\ finalResults' =
                      Append(finalResults,
                        Row(pair, actual[1], Delta(pair.expected, actual[1])))
                 /\ mergeAt' = mergeAt + 1
                 /\ UNCHANGED <<pc, exitCode, error>>
  /\ UNCHANGED <<scanVars, replayVars, outVars>>
  /\ UNCHANGED seenEvents

\* both loops are exhausted: Bun.write("./raw-result.json", ...)
WriteRawJson ==
  /\ pc = "merge"
  /\ mergeAt > Len(PairsOf(expectedTiers))
  /\ files' = MapSet(files, "raw-result.json", finalResults)
  /\ pc' = "rawCsv"
  /\ UNCHANGED <<reimburse, total>>
  /\ UNCHANGED <<scanVars, replayVars, mergeVars, exitCode, error>>
  /\ UNCHANGED seenEvents

\* .filter(({ delta }) => delta !== 0n)
NonZero(rows) == SelectSeq(rows, LAMBDA r : r.delta # 0)

\* AmountSoFar that forgets what the beneficiary has accumulated
AmountSoFarReset(acc, beneficiary) == 0

\* acc[x.beneficiary] || 0n
AmountSoFar(acc, beneficiary) ==
  LET amount == MapGet(acc, beneficiary)
  IN IF amount # None /\ amount[1] # 0 THEN amount[1] ELSE 0

\* .reduce((acc, x) => { acc[x.beneficiary] = amount + x.delta; ... }, {})
RECURSIVE Reduce(_, _)
Reduce(rows, acc) ==
  IF rows = <<>> THEN acc
  ELSE Reduce(Tail(rows),
         MapSet(acc, Head(rows).beneficiary,
           AmountSoFar(acc, Head(rows).beneficiary) + Head(rows).delta))

\* Ledger without the filter of the zero-delta rows
LedgerOfAllRows(rows) == Reduce(rows, <<>>)

Ledger(rows) == Reduce(NonZero(rows), <<>>)

\* Bun.write("./raw-result.csv", ...), then reimburse is built
WriteRawCsv ==
  /\ pc = "rawCsv"
  /\ files' = MapSet(files, "raw-result.csv", finalResults)
  /\ reimburse' = Ledger(finalResults)
  /\ pc' = "reimburseJson"
  /\ UNCHANGED total
  /\ UNCHANGED <<scanVars, replayVars, mergeVars, exitCode, error>>
  /\ UNCHANGED seenEvents

WriteReimburseJson ==
  /\ pc = "reimburseJson"
  /\ files' = MapSet(files, "reimburse.json", reimburse)
  /\ pc' = "reimburseCsv"
  /\ UNCHANGED <<reimburse, total>>
  /\ UNCHANGED <<scanVars, replayVars, mergeVars, exitCode, error>>
  /\ UNCHANGED seenEvents

\* SumValues whose reducer returns the amount and drops the accumulator
SumValuesLast(m) == IF m = <<>> THEN 0 ELSE m[Len(m)][2]

\* Object.values(reimburse).reduce((acc, amount) => acc + amount, 0n)
RECURSIVE SumValues(_)
SumValues(m) == IF m = <<>> THEN 0 ELSE m[1][2] + SumValues(Tail(m))

\* Bun.write("./reimburse.csv", ...), then the total is logged in ASTR
WriteReimburseCsv ==
  /\ pc = "reimburseCsv"
  /\ files' = MapSet(files, "reimburse.csv", reimburse)
  /\ total' = Some(SumValues(reimburse) \div AstrUnit)
  /\ pc' = "resolved"
  /\ UNCHANGED reimburse
  /\ UNCHANGED <<scanVars, replayVars, mergeVars, exitCode, error>>
  /\ UNCHANGED seenEvents

\* main() resolves: .then(() => process.exit())
Exit ==
  /\ pc = "resolved"
  /\ exitCode' = Some(0)
  /\ pc' = "done"
  /\ UNCHANGED error
  /\ UNCHANGED <<scanVars, replayVars, mergeVars, outVars>>
  /\ UNCHANGED seenEvents

Next ==
  \/ ReadInitialState
  \/ RecordBoundary
  \/ ScanCheckEvent
  \/ ScanExtract
  \/ ScanRefresh
  \/ ReadRuntime
  \/ SetupContext
  \/ SetWasm
  \/ OverrideStorage
  \/ NewBlock
  \/ ReplayCheckEvent
  \/ ReadTierConfig
  \/ ReplayExtract
  \/ SettleWait
  \/ Teardown
  \/ ReplayDone
  \/ CollaboratorFails
  \/ MergeStep
  \/ WriteRawJson
  \/ WriteRawCsv
  \/ WriteReimburseJson
  \/ WriteReimburseCsv
  \/ Exit

\* The three-era fixture of the end-to-end scenario, as main() holds it when the
\* Reconciler has finished: recipients A, B, C are dApps 1, 2, 3 and pay out
\* to "A", "B", "C"; era 2's expected reward is 50, or 40 in the abort variant
FixtureReward(amount, who) == [reward |-> amount, tierId |-> 0, beneficiary |-> who]

FixtureBlocks ==
  <<<<1, END_BLOCK - 3>>, <<2, END_BLOCK - 2>>, <<3, END_BLOCK - 1>>>>

FixtureActual ==
  <<<<1, <<<<1, FixtureReward(100, "A")>>, <<2, FixtureReward(200, "B")>>>>>>,
    <<2, <<<<1, FixtureReward(50, "A")>>>>>>,
    <<3, <<<<3, FixtureReward(10, "C")>>>>>>>>

FixtureExpected(era2) ==
  <<<<1, <<<<1, FixtureReward(150, "A")>>, <<2, FixtureReward(200, "B")>>>>>>,
    <<2, <<<<1, FixtureReward(era2, "A")>>>>>>,
    <<3, <<<<3, FixtureReward(40, "C")>>>>>>>>

FixtureFork(i) ==
  [era |-> FixtureBlocks[i][1],
   blockNumber |-> FixtureBlocks[i][2] - 1,
   wasm |-> Some(ToHex(FixedRuntimeCode)),
   override |-> IF i = 1 THEN None ELSE Some(ToHex(<<171>>)),
   produced |-> TRUE,
   storage |-> Some(<<171>>),
   open |-> FALSE]

FixtureInit ==
  /\ pc = "merge"
  /\ protocolState = Some([era |-> 4, nextEraStart |-> END_BLOCK])
  /\ blockNo = 0
  /\ era = 0
  /\ blocks = FixtureBlocks
  /\ actualTiers = FixtureActual
  /\ runtime = Some(ToHex(FixedRuntimeCode))
  /\ tierConfig = Some(ToHex(<<171>>))
  /\ \E era2 \in {50, 40} : expectedTiers = FixtureExpected(era2)
  /\ iter = 4
  /\ forks = [i \in 1..3 |-> FixtureFork(i)]
  /\ mergeAt = 1
  /\ finalResults = <<>>
  /\ reimburse = <<>>
  /\ files = <<>>
  /\ total = None
  /\ seenEvents = None
  /\ exitCode = None
  /\ error = ""

Spec == Init /\ [][Next]_vars

(***************************************************************************)
(* Properties                                                              *)
(***************************************************************************)
IntegrityErrors ==
  {"Missing dappStaking::NewEra event", "dapp should exists",
   "TypeError: undefined is not an object",
   "amount delta should not be negative"}

ExpectedPairs == PairsOf(expectedTiers)

\* the actual record of an (era, recipient) pair, read off the maps
ActualOf(pair) ==
  IF MapHas(actualTiers, pair.era)
    THEN MapGet(MapGet(actualTiers, pair.era)[1], pair.dapp_id)
    ELSE None

CounterpartMissing(pair) == ActualOf(pair) = None

NegativeDelta(pair) ==
  /\ ActualOf(pair) # None
  /\ pair.expected.reward < ActualOf(pair)[1].reward

RowsOf(pair) ==
  {i \in DOMAIN finalResults :
     finalResults[i].era = pair.era /\ finalResults[i].dapp_id = pair.dapp_id}

OpenForks == {i \in DOMAIN forks : forks[i].open}

\* C1: when an integrity violation has occurred (a missing NewEra event, a
\* missing registration, an expected recipient without actual counterpart, a
\* negative delta) none of the four files has been written, the run has ended
\* with exit code 1 and takes no further step.
C1_NoOutputOnIntegrityViolation ==
  /\ error \in IntegrityErrors =>
       /\ pc = "aborted"
       /\ files = <<>>
       /\ exitCode = Some(1)
       /\ ~ ENABLED Next
  /\ \A k \in DOMAIN ExpectedPairs :
       CounterpartMissing(ExpectedPairs[k]) \/ NegativeDelta(ExpectedPairs[k]) =>
         files = <<>> /\ exitCode # Some(0)

C1_Witness ==
  /\ pc = "aborted"
  /\ error = "amount delta should not be negative"
  /\ finalResults # <<>>
  /\ Len(expectedTiers) = 2

\* C2: every row appended to finalResults carries delta = expected.reward -
\* actual.reward >= 0 for the records of its (era, recipient) in expectedTiers
\* and actualTiers, and no pair with expected.reward < actual.reward has a row.
C2_RowsNonNegative ==
  /\ \A i \in DOMAIN finalResults :
       \E k \in DOMAIN ExpectedPairs :
         LET pair == ExpectedPairs[k]
             row == finalResults[i]
         IN /\ pair.era = row.era
            /\ pair.dapp_id = row.dapp_id
            /\ ActualOf(pair) # None
            /\ row.expected_reward = pair.expected.reward
            /\ row.actual_reward = ActualOf(pair)[1].reward
            /\ row.delta = pair.expected.reward - ActualOf(pair)[1].reward
            /\ row.delta >= 0
  /\ \A k \in DOMAIN ExpectedPairs :
       NegativeDelta(ExpectedPairs[k]) => RowsOf(ExpectedPairs[k]) = {}

C2_Witness ==
  /\ pc = "done"
  /\ \E i \in DOMAIN finalResults : finalResults[i].delta > 0
  /\ \E i \in DOMAIN finalResults : finalResults[i].delta = 0

RECURSIVE SumDelta(_, _, _)
SumDelta(rows, beneficiary, skipZero) ==
  IF rows = <<>> THEN 0
  ELSE (IF /\ Head(rows).beneficiary = beneficiary
           /\ (~ skipZero \/ Head(rows).delta # 0)
          THEN Head(rows).delta ELSE 0)
       + SumDelta(Tail(rows), beneficiary, skipZero)

RowBeneficiaries == {finalResults[i].beneficiary : i \in DOMAIN finalResults}

LedgerBuilt == pc \in {"reimburseJson", "reimburseCsv", "resolved", "done"}

\* C3: once the ledger is built, each beneficiary's total is the sum of delta
\* over all its rows, with or without the zero-delta rows, and a beneficiary
\* whose rows are all zero has no entry; the ledger has no other entry.
C3_LedgerIsSumOfDeltas ==
  LedgerBuilt =>
    /\ MapKeys(reimburse) \subseteq RowBeneficiaries
    /\ Cardinality(MapKeys(reimburse)) = Len(reimburse)
    /\ \A b \in RowBeneficiaries :
         /\ SumDelta(finalResults, b, TRUE) = SumDelta(finalResults, b, FALSE)
         /\ MapGet(reimburse, b) =
              IF \A i \in DOMAIN finalResults :
                   finalResults[i].beneficiary = b => finalResults[i].delta = 0
                THEN None
                ELSE Some(SumDelta(finalResults, b, FALSE))

C3_Witness ==
  /\ pc = "done"
  /\ \E b \in RowBeneficiaries :
       Cardinality({i \in DOMAIN finalResults :
                      finalResults[i].beneficiary = b
                      /\ finalResults[i].delta # 0}) >= 2
  /\ \E b \in RowBeneficiaries : ~ MapHas(reimburse, b)

\* C4: no run ends, by success or by abort, with a fork that was acquired and
\* never torn down.
C4_EveryForkReleased ==
  pc \in {"done", "aborted"} => OpenForks = {}

\* C5: at most one fork is open; when a fork is acquired every earlier fork
\* has been torn down and its era's replay has completed.
C5_ForksNeverOverlap ==
  /\ Cardinality(OpenForks) <= 1
  /\ \A i \in DOMAIN forks :
       i < Len(forks) =>
         /\ ~ forks[i].open
         /\ forks[i].produced
         /\ MapHas(expectedTiers, forks[i].era)

C5_Witness ==
  /\ Len(forks) = 2
  /\ forks[2].open
  /\ forks[2].produced

\* what a storage override decodes a hex string to: one byte per two digits
RECURSIVE HexToBytes(_)
HexToBytes(digits) ==
  IF Len(digits) < 2 THEN <<>>
  ELSE <<DigitVal(digits[1]) * 16 + DigitVal(digits[2])>>
         \o HexToBytes(SubSeq(digits, 3, Len(digits)))

\* C6: the first fork gets no tier-configuration override; every later fork,
\* by the time its block is produced, has been given as override exactly the
\* bytes read back from the fork before it after that fork's block.
C6_CarryForward ==
  \A i \in DOMAIN forks :
    /\ i = 1 => forks[i].override = None
    /\ i > 1 /\ forks[i].produced =>
         /\ forks[i].override # None
         /\ SubSeq(forks[i].override[1], 1, 2) = HexPrefix
         /\ HexToBytes(HexStripPrefix(forks[i].override[1]))
              = forks[i - 1].storage[1]

C6_Witness ==
  /\ Len(forks) = 2
  /\ forks[1].produced
  /\ forks[2].produced
  /\ forks[1].storage # forks[2].storage

\* C7: the Scanner never starts another iteration on a next-era-start that is
\* not greater than the boundary of the iteration before: it aborts instead.
C7_ScannerGuardsBoundary ==
  [][pc = "refresh" /\ pc' = "record"
       => protocolState'[1].nextEraStart > blockNo]_vars

\* C8: while some expected recipient has no actual counterpart, the merge
\* never gets past that pair: it has no row, no file is written and the run
\* does not complete; the run that reaches the pair aborts there.
C8_MissingActualAborts ==
  /\ \A k \in DOMAIN ExpectedPairs :
       CounterpartMissing(ExpectedPairs[k]) =>
         /\ RowsOf(ExpectedPairs[k]) = {}
         /\ mergeAt <= k
         /\ files = <<>>
         /\ pc \notin {"rawCsv", "reimburseJson", "reimburseCsv", "resolved", "done"}
  /\ error = "TypeError: undefined is not an object" =>
       /\ pc = "aborted"
       /\ mergeAt \in DOMAIN ExpectedPairs
       /\ CounterpartMissing(ExpectedPairs[mergeAt])
       /\ Len(finalResults) = mergeAt - 1

C8_Witness ==
  /\ pc = "aborted"
  /\ error = "TypeError: undefined is not an object"
  /\ finalResults # <<>>

\* C9: a run never completes successfully while a recipient of an era's
\* actual reward set is absent from that era's expected reward set.
C9_NoSilentOmission ==
  pc = "done" =>
    \A i \in DOMAIN actualTiers :
      \A j \in DOMAIN actualTiers[i][2] :
        /\ MapHas(expectedTiers, actualTiers[i][1])
        /\ MapHas(MapGet(expectedTiers, actualTiers[i][1])[1],
                  actualTiers[i][2][j][1])

\* C10: every boundary recorded in the era-to-block map lies strictly below
\* END_BLOCK.
C10_BoundariesBelowEnd ==
  \A i \in DOMAIN blocks : blocks[i][2] < END_BLOCK

\* the place in finalResults of the j-th recipient of the i-th era
RECURSIVE RowsBefore(_)
RowsBefore(i) ==
  IF i <= 1 THEN 0 ELSE RowsBefore(i - 1) + Len(expectedTiers[i - 1][2])

MergeFinished ==
  pc \in {"rawCsv", "reimburseJson", "reimburseCsv", "resolved", "done"}

RowTriples ==
  [i \in DOMAIN finalResults |->
     <<finalResults[i].era, finalResults[i].dapp_id, finalResults[i].delta>>]

\* C11: when the merge has finished, finalResults holds exactly one row for
\* each (era, recipient) of expectedTiers, in the order of the eras and then
\* of the recipients, and nothing else; the three-era fixture ends with the
\* rows (1,A,50), (1,B,0), (2,A,0), (3,C,30) and the ledger {A: 50, C: 30}.
C11_OneRowPerPairInOrder ==
  /\ MergeFinished =>
       /\ Len(finalResults) = RowsBefore(Len(expectedTiers) + 1)
       /\ \A i \in DOMAIN expectedTiers :
            \A j \in DOMAIN expectedTiers[i][2] :
              LET row == finalResults[RowsBefore(i) + j]
              IN /\ row.era = expectedTiers[i][1]
                 /\ row.dapp_id = expectedTiers[i][2][j][1]
                 /\ row.expected_reward = expectedTiers[i][2][j][2].reward
                 /\ row.beneficiary = expectedTiers[i][2][j][2].beneficiary
  /\ pc = "done" /\ actualTiers = FixtureActual
       /\ expectedTiers = FixtureExpected(50) =>
       /\ RowTriples = <<<<1, 1, 50>>, <<1, 2, 0>>, <<2, 1, 0>>, <<3, 3, 30>>>>
       /\ reimburse = <<<<"A", 50>>, <<"C", 30>>>>
       /\ MapGet(files, "reimburse.json") = Some(reimburse)

C11_Witness ==
  /\ pc = "done"
  /\ actualTiers = FixtureActual
  /\ expectedTiers = FixtureExpected(50)
  /\ Len(finalResults) = 4

ReconcilerPcs ==
  {"replay", "setWasm", "override", "newBlock", "forkEvents", "readConfig",
   "forkExtract", "wait", "teardown"}

AggregatorPcs ==
  {"merge", "rawCsv", "reimburseJson", "reimburseCsv", "resolved", "done"}

\* C12: a fork is acquired only after the Scanner loop has ended (its last
\* snapshot has next-era-start >= END_BLOCK and every recorded era has its
\* actual reward set) and the runtime has been read; a row is computed only
\* after every entry of blocks has been replayed on a fork that is torn down.
C12_PhasesInOrder ==
  /\ forks # <<>> \/ pc \in ReconcilerPcs =>
       /\ runtime # None
       /\ protocolState # None
       /\ protocolState[1].nextEraStart >= END_BLOCK
       /\ MapKeys(actualTiers) = MapKeys(blocks)
  /\ finalResults # <<>> \/ pc \in AggregatorPcs =>
       /\ iter = Len(blocks) + 1
       /\ Len(forks) = Len(blocks)
       /\ \A i \in DOMAIN forks :
            /\ forks[i].era = blocks[i][1]
            /\ forks[i].produced
            /\ ~ forks[i].open
            /\ MapHas(expectedTiers, blocks[i][1])

C12_Witness ==
  /\ pc = "merge"
  /\ finalResults # <<>>
  /\ Len(forks) = 2

\* C13: when a collaborator operation of a Reconciler iteration has failed,
\* the run has aborted with exit code 1 and takes no further step: the era of
\* the failed iteration has no entry in expectedTiers, no later era has a
\* fork, no row is computed and no file is written.
C13_ReplayFailureAborts ==
  error = "collaborator failure" /\ runtime # None =>
    /\ pc = "aborted"
    /\ exitCode = Some(1)
    /\ ~ ENABLED Next
    /\ iter \in DOMAIN blocks
    /\ ~ MapHas(expectedTiers, blocks[iter][1])
    /\ Len(expectedTiers) = iter - 1
    /\ Len(forks) \in {iter - 1, iter}
    /\ finalResults = <<>>
    /\ files = <<>>

C13_Witness ==
  /\ error = "collaborator failure"
  /\ pc = "aborted"
  /\ Len(forks) = 2
  /\ forks[2].produced
  /\ Len(expectedTiers) = 1

HasNewEra(log) == \E i \in DOMAIN log : log[i] = NewEraEvent

C15_WaitAfterTeardown ==
  pc = "wait" => \A i \in DOMAIN forks : ~ forks[i].open

\* C16: the eras are replayed in strictly ascending order, each on a fork
\* anchored at its boundary block minus one, and the era-to-block map
\* iterates in ascending era order.
C16_AscendingReplay ==
  /\ \A i, j \in DOMAIN blocks : i < j => blocks[i][1] < blocks[j][1]
  /\ \A i, j \in DOMAIN forks : i < j => forks[i].era < forks[j].era
  /\ \A i \in DOMAIN forks :
       MapGet(blocks, forks[i].era) = Some(forks[i].blockNumber + 1)

ScannerPcs == {"start", "record", "events", "extract", "refresh", "runtime"}

\* C17: a step taken outside the Scanner leaves blocks and actualTiers
\* unchanged, a step taken outside the Reconciler leaves expectedTiers
\* unchanged, a step of the Reconciler or the Aggregator leaves runtime
\* unchanged, and every fork that has had its runtime set holds the value of
\* runtime.
C17_MapsWrittenByOwner ==
  [][ /\ pc \notin ScannerPcs =>
           /\ blocks' = blocks
           /\ actualTiers' = actualTiers
           /\ runtime' = runtime
      /\ pc \notin ReconcilerPcs => expectedTiers' = expectedTiers
      /\ \A i \in DOMAIN forks' :
           forks'[i].wasm # None => forks'[i].wasm = runtime'
    ]_vars

C17_Witness ==
  /\ pc = "done"
  /\ Len(blocks) = 2
  /\ Len(actualTiers) = 2
  /\ Len(expectedTiers) = 2
  /\ Len(forks) = 2
  /\ forks[1].wasm = runtime
  /\ forks[2].wasm = runtime
  /\ finalResults # <<>>

RECURSIVE TotalDelta(_)
TotalDelta(rows) ==
  IF rows = <<>> THEN 0 ELSE Head(rows).delta + TotalDelta(Tail(rows))

\* C18: once the total is reported, every entry of the ledger is strictly
\* positive, the sum of the ledger's amounts is the sum of delta over all
\* rows, and the reported total is that sum divided by the ASTR unit.
C18_LedgerPositiveAndTotal ==
  pc \in {"resolved", "done"} =>
    /\ \A i \in DOMAIN reimburse : reimburse[i][2] > 0
    /\ SumValues(reimburse) = TotalDelta(finalResults)
    /\ total = Some(TotalDelta(finalResults) \div AstrUnit)

C18_Witness ==
  /\ pc = "done"
  /\ exitCode = Some(0)
  /\ Len(reimburse) = 2
  /\ \E i \in DOMAIN finalResults : finalResults[i].delta = 0
  /\ total # None
  /\ total[1] > 0

\* the for...of over blocks has run to its end
ReconcilerCompleted == runtime # None /\ iter = Len(blocks) + 1

\* C19: when the Reconciler has completed, blocks, actualTiers and
\* expectedTiers have the same set of era keys, and every era of expectedTiers
\* has an actual reward set.
C19_SameEraKeys ==
  ReconcilerCompleted =>
    /\ MapKeys(actualTiers) = MapKeys(blocks)
    /\ MapKeys(expectedTiers) = MapKeys(blocks)
    /\ \A i \in DOMAIN expectedTiers :
         MapGet(actualTiers, expectedTiers[i][1]) # None

C19_Witness ==
  /\ pc = "rawCsv"
  /\ ReconcilerCompleted
  /\ Len(blocks) = 2
  /\ Len(finalResults) >= 2

SpecFixture == (Init \/ FixtureInit) /\ [][Next]_vars

====
